---- MODULE Spec2Model ----
(***************************************************************************)
(* Model of scan.py: the concurrent directory scanner (Scanner), its work  *)
(* queue, the sink queue and the single sqlite writer (DB), and main().    *)
(*                                                                         *)
(* A path is the sequence of its components; os.path.join appends one and  *)
(* os.path.dirname drops the last.  A queue is the sequence of its items,  *)
(* oldest first.  Not modelled: the columns base_name, extension, size,    *)
(* mtime of a files row and the timestamps (time.time()), which no         *)
(* property below reads, and the progress prints.                          *)
(***************************************************************************)
EXTENDS Integers, Sequences, FiniteSets, Bags, TLC

(***************************************************************************)
(* Bounds of the model.                                                    *)
(***************************************************************************)
MaxWorkers == 2     \* --workers ranges over 1..MaxWorkers
MaxCap == 1         \* the bounded --queue_length / --writer_queue_length
MaxFaults == 1      \* number of transient OS / store errors injected per run

(***************************************************************************)
(* The file tree.  One physical tree with one entry, R/v, whose kind       *)
(* varies:                                                                 *)
(*     R/S/b            regular file                                       *)
(*     R/X.backupdb/g   regular file below an ignore-matched directory     *)
(*     R/v              regular file | symlink to R/S | symlink to R/S/b   *)
(*                      | dangling symlink | fifo                          *)
(* and the script itself, scan.py, a regular file outside R.               *)
(***************************************************************************)
R == <<"R">>
RS == <<"R", "S">>
RX == <<"R", "X.backupdb">>
RV == <<"R", "v">>
SCRIPT == <<"scan.py">>

Kinds == {"file", "to_dir", "to_file", "dangling", "fifo"}

Entry(n, k, t, c) == [name |-> n, kind |-> k, target |-> t, content |-> c]

VEntry(k) ==
    CASE k = "file"     -> Entry("v", "file", <<>>, "cv")
      [] k = "to_dir"   -> Entry("v", "symlink", RS, "")
      [] k = "to_file"  -> Entry("v", "symlink", <<"R", "S", "b">>, "")
      [] k = "dangling" -> Entry("v", "symlink", <<"nowhere">>, "")
      [] k = "fifo"     -> Entry("v", "fifo", <<>>, "")

PhysDirs == {R, RS, RX}

\* What os.scandir yields for a physical directory, in directory order.
Listing(k, d) ==
    CASE d = R  -> << Entry("S", "dir", <<>>, ""),
                      Entry("X.backupdb", "dir", <<>>, ""),
                      VEntry(k) >>
      [] d = RS -> << Entry("b", "file", <<>>, "cb") >>
      [] d = RX -> << Entry("g", "file", <<>>, "cg") >>

Last(p) == p[Len(p)]
dirname(p) == SubSeq(p, 1, Len(p) - 1)
join(p, n) == Append(p, n)

\* The entry a path names in its (physical) parent directory, if any.
Lookup(k, d, n) ==
    LET l == Listing(k, d)
        hits == {i \in 1..Len(l) : l[i].name = n}
    IN IF hits = {} THEN Entry(n, "absent", <<>>, "") ELSE l[CHOOSE i \in hits : TRUE]

\* The physical object a path resolves to, following symlinks as the kernel
\* does: [kind |-> "dir", at |-> physical directory] | [kind |-> "file",
\* content |-> c] | [kind |-> "fifo"] | [kind |-> "absent"].
RECURSIVE Walk(_, _)
Walk(k, p) ==
    IF p \in PhysDirs THEN [kind |-> "dir", at |-> p, content |-> ""]
    ELSE IF Len(p) < 2 THEN
        IF p = SCRIPT THEN [kind |-> "file", at |-> <<>>, content |-> "py"]
        ELSE [kind |-> "absent", at |-> <<>>, content |-> ""]
    ELSE LET par == Walk(k, dirname(p))
         IN IF par.kind # "dir" THEN [kind |-> "absent", at |-> <<>>, content |-> ""]
            ELSE LET e == Lookup(k, par.at, Last(p))
                 IN CASE e.kind = "dir"     -> [kind |-> "dir", at |-> join(par.at, e.name), content |-> ""]
                      [] e.kind = "file"    -> [kind |-> "file", at |-> <<>>, content |-> e.content]
                      [] e.kind = "symlink" -> Walk(k, e.target)
                      [] OTHER              -> [kind |-> e.kind, at |-> <<>>, content |-> ""]

\* The tree of each kind as a table from every path of up to three components.
Names == {"R", "S", "X.backupdb", "v", "b", "g", "scan.py", "nowhere"}
Paths == UNION {[1..n -> Names] : n \in 0..3}
Resolved == [k \in Kinds |-> [p \in Paths |-> Walk(k, p)]]
Resolve(k, p) == Resolved[k][p]

\* os.DirEntry.is_dir(), is_file(): both follow symlinks (follow_symlinks=True
\* is the default); is_symlink() looks at the entry itself.
is_dir(k, abs_item) == Resolve(k, abs_item).kind = "dir"
is_file(k, abs_item) == Resolve(k, abs_item).kind = "file"
is_symlink(item) == item.kind = "symlink"

\* os.scandir(path): the entries of the directory the path resolves to.
scandir(k, path) == Listing(k, Resolve(k, path).at)
\* os.scandir raises (NotADirectoryError, FileNotFoundError) on anything else.
scandir_ok(k, path) == Resolve(k, path).kind = "dir"

\* md5(fname): the digest of the bytes the path resolves to.
md5(k, fname) == <<"md5", Resolve(k, fname).content>>

\* fnmatch.fnmatch(name, pattern) for the patterns used here.
fnmatch(name, pattern) ==
    CASE pattern = "*.backupdb" -> name \in {"X.backupdb"}
      [] pattern = "*"          -> TRUE
      [] OTHER                  -> name = pattern

\* args.ignore as configured with --ignore '*.backupdb'.
ignore == <<"*.backupdb">>

\* Scanner._ignored
ignored(name) == \E i \in 1..Len(ignore) : fnmatch(name, ignore[i])

(***************************************************************************)
(* The operation descriptors DB.record_* put on the sink queue.            *)
(***************************************************************************)
VARIABLES
    run,         \* 1 in the first run of main(), 2 in a second run on its store
    emitted      \* history: every operation put on the sink queue, in order

\* time.time(): later in a later run, and later with every record emitted.
time == <<run, Len(emitted)>>

\* A faulty variant of record_file, keyed by the directory instead of the file.
record_file_by_dir(abs_path, digest) ==
    [rel |-> "files", abs_path |-> dirname(abs_path),
     row |-> [dir_name |-> dirname(abs_path), content_hash |-> digest]]

record_file(abs_path, digest) ==
    [rel |-> "files", abs_path |-> abs_path,
     row |-> [dir_name |-> dirname(abs_path), content_hash |-> digest]]

record_directory(abs_path, file_count, dir_count, symlink_count) ==
    [rel |-> "directories", abs_path |-> abs_path,
     row |-> [file_count |-> file_count, dir_count |-> dir_count,
              symlink_count |-> symlink_count, last_scanned_at |-> time]]

record_symlink(abs_path, target) ==
    [rel |-> "symlinks", abs_path |-> abs_path, row |-> [target |-> target]]

record_failure(abs_path, e) ==
    [rel |-> "failures", abs_path |-> abs_path, row |-> [recorded_at |-> time, error_message |-> e]]

STOP == [rel |-> "STOP", abs_path |-> <<>>, row |-> [stop |-> TRUE]]

Relations == {"files", "directories", "symlinks", "failures"}
NoRows == [p \in {} |-> p]

\* The schema of the store: abs_path is the key of every relation.
key(op) == op.abs_path

\* A faulty variant of execute, 'insert or ignore into': the first row stays.
execute_keep_first(db, op) ==
    [db EXCEPT ![op.rel] = @ @@ (key(op) :> op.row)]

\* dbh.execute('replace into <rel> values (...)'): the row with the key of the
\* new one is replaced as a whole.
execute(db, op) ==
    [db EXCEPT ![op.rel] = (key(op) :> op.row) @@ @]

\* The branch of the loop of _scan_dir an entry takes when the directory is not
\* done: is_dir() first, then is_file(), then the assert on is_symlink().
Branch(k, path, item) ==
    LET abs_item == join(path, item.name)
    IN IF is_dir(k, abs_item) THEN "dir"
       ELSE IF is_file(k, abs_item) THEN "file"
       ELSE IF is_symlink(item) THEN "symlink"
       ELSE "assert"

CountBranch(k, path, b) ==
    LET items == scandir(k, path)
    IN Cardinality({i \in 1..Len(items) : Branch(k, path, items[i]) = b})

\* The row an earlier complete run over the same tree left for a directory.
PriorRow(k, path) ==
    [file_count |-> CountBranch(k, path, "file"),
     dir_count |-> CountBranch(k, path, "dir"),
     symlink_count |-> CountBranch(k, path, "symlink"),
     last_scanned_at |-> <<0, 0>>]

VARIABLES
    kind,        \* which kind R/v is (the file tree)
    paths,       \* args.paths: sys.argv handed to parse_args, so paths[1] is the script
    nworkers,    \* args.workers
    qmax,        \* maxsize of the work queue (0: unbounded)
    dqmax,       \* maxsize of the sink queue (0: unbounded)
    done_dirs,   \* Scanner._done_dirs, read once by get_done_dirs()
    que,         \* the work queue
    dque,        \* the sink queue
    mpc,         \* main(): where the coordinator is
    mi,          \* main(): index of the next root to seed / worker to start
    wk,          \* the started workers: a bag of their pcs and locals of loop(), _scan_dir()
    wrpc,        \* writer_loop(): "unstarted" | "run" | "stopped" | "crashed"
    db,          \* the store as the writer's connection sees it
    durable,     \* the store as committed
    faults,      \* errors the environment may still inject
    enqueued,    \* history: every path put on the work queue, in order
    applied,     \* history: every operation the writer executed, in order
    hashed,      \* history: every path md5() was called on
    passes,      \* history: a summary of every pass of _scan_dir that ended
    store0       \* the store as the current run found it at startup

vars == <<kind, paths, nworkers, qmax, dqmax, done_dirs, que, dque, mpc, mi, wk,
          wrpc, db, durable, faults, enqueued, emitted, applied, hashed,
          passes, run, store0>>

config == <<kind, paths, nworkers, qmax, dqmax, done_dirs, run, store0>>

RootLists == { <<R>>, <<R, RS>>, <<RX>> }
DoneSets == {{}, {R}}
PoolKinds == {"to_dir", "file"}

\* A faulty variant of the resume test that takes no directory for done.
in_done_dirs_never(path, dirs) == FALSE

\* A faulty variant of the resume test that also consults the store as it is
\* now, with what the current run has written to it.
in_done_dirs_live(path, dirs) == path \in dirs \/ path \in DOMAIN db.directories

\* done = path in self._done_dirs
in_done_dirs(path, dirs) == path \in dirs

\* A worker's pc and the locals of _scan_dir (items: what os.scandir(path)
\* yields); sub and out are history: the
\* subdirectories enqueued and the operations emitted by the pass under way.
Idle == [pc |-> "get", path |-> <<>>, done |-> FALSE, items |-> <<>>, idx |-> 0,
         files |-> <<>>, dir_count |-> 0, symlink_count |-> 0, fi |-> 0, e |-> "",
         sub |-> <<>>, out |-> <<>>]

\* A faulty variant of get_done_dirs that finds no directory recorded.
get_done_dirs_none(store) == {}

\* DB.get_done_dirs: the abs_path column of directories.
get_done_dirs(store) == DOMAIN store.directories

\* maxsize of a queue: 0, unbounded, or the bound.
Capacities == {0, MaxCap}

\* The runs explored.  Every kind of tree, root list and resume index is run
\* with one worker; the pool of 2..MaxWorkers workers is run on the root R
\* with an empty resume index.
Configs ==
    [kind : Kinds, roots : RootLists, workers : {1}, qmax : Capacities,
     dqmax : Capacities, done : DoneSets]
    \cup
    [kind : PoolKinds, roots : {<<R>>}, workers : 2..MaxWorkers, qmax : Capacities,
     dqmax : Capacities, done : {{}}]

Init ==
    /\ \E c \in Configs :
          /\ kind = c.kind
          \* parser.parse_args(sys.argv): sys.argv[0], the script, is the first path
          /\ paths = <<SCRIPT>> \o c.roots
          /\ nworkers = c.workers
          /\ qmax = c.qmax
          /\ dqmax = c.dqmax
          /\ durable = [rel \in Relations |->
                           IF rel = "directories"
                           THEN [p \in c.done |-> PriorRow(c.kind, p)]
                           ELSE NoRows]
    /\ done_dirs = get_done_dirs(durable)
    /\ db = durable
    /\ que = <<>>
    /\ dque = <<>>
    /\ mpc = "seed"
    /\ mi = 1
    /\ wk = EmptyBag
    /\ wrpc = "unstarted"
    /\ faults = MaxFaults
    /\ enqueued = <<>>
    /\ emitted = <<>>
    /\ applied = <<>>
    /\ hashed = {}
    /\ passes = {}
    /\ run = 1
    /\ store0 = durable

Full(q, maxsize) == maxsize > 0 /\ Len(q) >= maxsize

(***************************************************************************)
(* main()                                                                  *)
(***************************************************************************)

\* Scanner.enqueue, called by main for each of args.paths: a blocking put.
Seed ==
    /\ mpc = "seed"
    /\ mi <= Len(paths)
    /\ ~Full(que, qmax)
    /\ que' = Append(que, paths[mi])
    /\ enqueued' = Append(enqueued, paths[mi])
    /\ mi' = mi + 1
    /\ UNCHANGED <<config, dque, mpc, wk, wrpc, db, durable, faults, emitted,
                   applied, hashed, passes>>

\* worker.start(), once per worker, after every root is on the queue.
StartWorker ==
    /\ mpc = "seed"
    /\ mi > Len(paths)
    /\ LET w == mi - Len(paths)
       IN /\ wk' = wk (+) SetToBag({Idle})
          /\ IF w = nworkers
             THEN mpc' = "writer" /\ mi' = mi
             ELSE mpc' = mpc /\ mi' = mi + 1
    /\ UNCHANGED <<config, que, dque, wrpc, db, durable, faults, enqueued,
                   emitted, applied, hashed, passes>>

\* writer.start()
StartWriter ==
    /\ mpc = "writer"
    /\ wrpc' = "run"
    /\ mpc' = "join"
    /\ UNCHANGED <<config, que, dque, mi, wk, db, durable, faults, enqueued,
                   emitted, applied, hashed, passes>>

Exited(s) == s.pc \in {"exited", "crashed"}

\* A faulty variant of the coordinator that does not join the workers.
JoinNobody ==
    /\ mpc = "join"
    /\ mpc' = "stop"
    /\ UNCHANGED <<config, que, dque, mi, wk, wrpc, db, durable, faults,
                   enqueued, emitted, applied, hashed, passes>>

\* worker.join() for every worker, then db.stop(): a blocking put of "STOP".
JoinAll ==
    /\ mpc = "join"
    /\ \A s \in BagToSet(wk) : Exited(s)
    /\ mpc' = "stop"
    /\ UNCHANGED <<config, que, dque, mi, wk, wrpc, db, durable, faults,
                   enqueued, emitted, applied, hashed, passes>>

stop ==
    /\ mpc = "stop"
    /\ ~Full(dque, dqmax)
    /\ dque' = Append(dque, STOP)
    /\ mpc' = "done"
    /\ UNCHANGED <<config, que, mi, wk, wrpc, db, durable, faults, enqueued,
                   emitted, applied, hashed, passes>>

(***************************************************************************)
(* Scanner.loop and Scanner._scan_dir, one worker w                        *)
(***************************************************************************)

\* The bag of workers with one worker in state s now in state t.
Step(s, t) == (wk (-) SetToBag({s})) (+) SetToBag({t})

\* An exception leaves _scan_dir for the handler of loop().
Raise(s, e) == [s EXCEPT !.pc = "except", !.e = e]

Summary(s, outcome) ==
    [path |-> s.path, done |-> s.done, outcome |-> outcome, sub |-> s.sub,
     out |-> s.out]

\* Where _scan_dir goes once entry idx has been handled: the next entry, or
\* the `if not done` after the loop.
AfterEntry(s) ==
    IF s.idx < Len(s.items) THEN [s EXCEPT !.idx = @ + 1]
    ELSE [s EXCEPT !.idx = @ + 1, !.pc = "files"]

\* abs_path = self._queue.get(timeout=60) returns an item, and _scan_dir
\* starts on it: done = path in self._done_dirs; os.scandir(path).
Dequeue(s) ==
    LET path == Head(que)
        t == [Idle EXCEPT !.path = path, !.done = in_done_dirs(path, done_dirs), !.idx = 1,
                          !.fi = 1]
    IN /\ s.pc = "get"
       /\ que # <<>>
       /\ que' = Tail(que)
       /\ \/ /\ scandir_ok(kind, path)
             /\ wk' = Step(s, [t EXCEPT !.items = scandir(kind, path),
                                        !.pc = IF scandir(kind, path) = <<>>
                                               THEN "files" ELSE "entries"])
             /\ UNCHANGED faults
          \/ \* os.scandir raises: not a directory
             /\ ~scandir_ok(kind, path)
             /\ wk' = Step(s, Raise(t, "NotADirectoryError"))
             /\ UNCHANGED faults
          \/ \* os.scandir raises: the environment denies the directory
             /\ scandir_ok(kind, path)
             /\ faults > 0
             /\ faults' = faults - 1
             /\ wk' = Step(s, Raise(t, "PermissionError"))
       /\ UNCHANGED <<config, dque, mpc, mi, wrpc, db, durable, enqueued,
                      emitted, applied, hashed, passes>>

\* A faulty variant of the worker's get, without timeout: it waits for ever.
GetForEver(s) ==
    /\ s.pc = "get"
    /\ que = <<>>
    /\ UNCHANGED vars

\* self._queue.get(timeout=60) raises queue.Empty: the queue stayed empty for
\* 60 s.  The worker leaves loop().
Timeout(s) ==
    /\ s.pc = "get"
    /\ que = <<>>
    /\ wk' = Step(s, [s EXCEPT !.pc = "exited"])
    /\ UNCHANGED <<config, que, dque, mpc, mi, wrpc, db, durable, faults,
                   enqueued, emitted, applied, hashed, passes>>

\* A faulty variant of the iteration that counts in dir_count only the
\* directories it enqueues.
ScanEntryCountsEnqueued(s) ==
    LET item == s.items[s.idx]
        abs_item == join(s.path, item.name)
    IN /\ s.pc = "entries"
       /\ \/ \* item.is_dir() and not ignored: self.enqueue(abs_item), a blocking put
             /\ is_dir(kind, abs_item)
             /\ ~ignored(item.name)
             /\ ~Full(que, qmax)
             /\ que' = Append(que, abs_item)
             /\ enqueued' = Append(enqueued, abs_item)
             /\ wk' = Step(s, AfterEntry([s EXCEPT !.dir_count = @ + 1,
                                                  !.sub = Append(@, abs_item)]))
             /\ UNCHANGED <<dque, emitted, faults>>
          \/ \* item.is_dir() and ignored
             /\ is_dir(kind, abs_item)
             /\ ignored(item.name)
             /\ wk' = Step(s, AfterEntry(s))
             /\ UNCHANGED <<que, enqueued, dque, emitted, faults>>
          \/ \* not a directory and done: nothing
             /\ ~is_dir(kind, abs_item)
             /\ s.done
             /\ wk' = Step(s, AfterEntry(s))
             /\ UNCHANGED <<que, enqueued, dque, emitted, faults>>
          \/ \* item.is_file(): files.append(item)
             /\ ~is_dir(kind, abs_item)
             /\ ~s.done
             /\ is_file(kind, abs_item)
             /\ wk' = Step(s, AfterEntry([s EXCEPT !.files = Append(@, item)]))
             /\ UNCHANGED <<que, enqueued, dque, emitted, faults>>
          \/ \* assert item.is_symlink() fails
             /\ ~is_dir(kind, abs_item)
             /\ ~s.done
             /\ ~is_file(kind, abs_item)
             /\ ~is_symlink(item)
             /\ wk' = Step(s, Raise(s, "AssertionError"))
             /\ UNCHANGED <<que, enqueued, dque, emitted, faults>>
          \/ \* os.readlink(abs_item) raises
             /\ ~is_dir(kind, abs_item)
             /\ ~s.done
             /\ ~is_file(kind, abs_item)
             /\ is_symlink(item)
             /\ faults > 0
             /\ faults' = faults - 1
             /\ wk' = Step(s, Raise(s, "OSError"))
             /\ UNCHANGED <<que, enqueued, dque, emitted>>
          \/ \* self._db.record_symlink(abs_item, os.readlink(abs_item))
             /\ ~is_dir(kind, abs_item)
             /\ ~s.done
             /\ ~is_file(kind, abs_item)
             /\ is_symlink(item)
             /\ IF Full(dque, dqmax)
                THEN /\ wk' = Step(s, Raise(s, "Full"))
                     /\ UNCHANGED <<dque, emitted>>
                ELSE LET op == record_symlink(abs_item, item.target)
                     IN /\ dque' = Append(dque, op)
                        /\ emitted' = Append(emitted, op)
                        /\ wk' = Step(s, AfterEntry([s EXCEPT !.symlink_count = @ + 1,
                                                             !.out = Append(@, op)]))
             /\ UNCHANGED <<que, enqueued, faults>>
       /\ UNCHANGED <<config, mpc, mi, wrpc, db, durable, applied, hashed, passes>>

\* One iteration of `for item in os.scandir(path)`.
ScanEntry(s) ==
    LET item == s.items[s.idx]
        abs_item == join(s.path, item.name)
    IN /\ s.pc = "entries"
       /\ \/ \* item.is_dir() and not ignored: self.enqueue(abs_item), a blocking put
             /\ is_dir(kind, abs_item)
             /\ ~ignored(item.name)
             /\ ~Full(que, qmax)
             /\ que' = Append(que, abs_item)
             /\ enqueued' = Append(enqueued, abs_item)
             /\ wk' = Step(s, AfterEntry([s EXCEPT !.dir_count = @ + 1,
                                                  !.sub = Append(@, abs_item)]))
             /\ UNCHANGED <<dque, emitted, faults>>
          \/ \* item.is_dir() and ignored
             /\ is_dir(kind, abs_item)
             /\ ignored(item.name)
             /\ wk' = Step(s, AfterEntry([s EXCEPT !.dir_count = @ + 1]))
             /\ UNCHANGED <<que, enqueued, dque, emitted, faults>>
          \/ \* not a directory and done: nothing
             /\ ~is_dir(kind, abs_item)
             /\ s.done
             /\ wk' = Step(s, AfterEntry(s))
             /\ UNCHANGED <<que, enqueued, dque, emitted, faults>>
          \/ \* item.is_file(): files.append(item)
             /\ ~is_dir(kind, abs_item)
             /\ ~s.done
             /\ is_file(kind, abs_item)
             /\ wk' = Step(s, AfterEntry([s EXCEPT !.files = Append(@, item)]))
             /\ UNCHANGED <<que, enqueued, dque, emitted, faults>>
          \/ \* assert item.is_symlink() fails
             /\ ~is_dir(kind, abs_item)
             /\ ~s.done
             /\ ~is_file(kind, abs_item)
             /\ ~is_symlink(item)
             /\ wk' = Step(s, Raise(s, "AssertionError"))
             /\ UNCHANGED <<que, enqueued, dque, emitted, faults>>
          \/ \* os.readlink(abs_item) raises
             /\ ~is_dir(kind, abs_item)
             /\ ~s.done
             /\ ~is_file(kind, abs_item)
             /\ is_symlink(item)
             /\ faults > 0
             /\ faults' = faults - 1
             /\ wk' = Step(s, Raise(s, "OSError"))
             /\ UNCHANGED <<que, enqueued, dque, emitted>>
          \/ \* self._db.record_symlink(abs_item, os.readlink(abs_item))
             /\ ~is_dir(kind, abs_item)
             /\ ~s.done
             /\ ~is_file(kind, abs_item)
             /\ is_symlink(item)
             /\ IF Full(dque, dqmax)
                THEN /\ wk' = Step(s, Raise(s, "Full"))
                     /\ UNCHANGED <<dque, emitted>>
                ELSE LET op == record_symlink(abs_item, item.target)
                     IN /\ dque' = Append(dque, op)
                        /\ emitted' = Append(emitted, op)
                        /\ wk' = Step(s, AfterEntry([s EXCEPT !.symlink_count = @ + 1,
                                                             !.out = Append(@, op)]))
             /\ UNCHANGED <<que, enqueued, faults>>
       /\ UNCHANGED <<config, mpc, mi, wrpc, db, durable, applied, hashed, passes>>

\* Scanner._process_file for files[fi]: os.stat, md5, record_file.
ProcessFile(s) ==
    LET abs_path == join(s.path, s.files[s.fi].name)
    IN /\ s.pc = "files"
       /\ ~s.done
       /\ s.fi <= Len(s.files)
       /\ \/ \* os.stat(abs_path) raises
             /\ faults > 0
             /\ faults' = faults - 1
             /\ wk' = Step(s, Raise(s, "OSError"))
             /\ UNCHANGED <<dque, emitted, hashed>>
          \/ \* md5(abs_path) raises
             /\ faults > 0
             /\ faults' = faults - 1
             /\ hashed' = hashed \cup {abs_path}
             /\ wk' = Step(s, Raise(s, "OSError"))
             /\ UNCHANGED <<dque, emitted>>
          \/ \* self._db.record_file(..., md5(abs_path))
             /\ hashed' = hashed \cup {abs_path}
             /\ IF Full(dque, dqmax)
                THEN /\ wk' = Step(s, Raise(s, "Full"))
                     /\ UNCHANGED <<dque, emitted>>
                ELSE LET op == record_file(abs_path, md5(kind, abs_path))
                     IN /\ dque' = Append(dque, op)
                        /\ emitted' = Append(emitted, op)
                        /\ wk' = Step(s, [s EXCEPT !.fi = @ + 1,
                                                             !.out = Append(@, op)])
             /\ UNCHANGED faults
       /\ UNCHANGED <<config, que, mpc, mi, wrpc, db, durable, enqueued, applied,
                      passes>>

\* A faulty variant that records the directory before its files are through.
RecordDirectoryEarly(s) ==
    /\ s.pc = "files"
    /\ ~s.done
    /\ ~Full(dque, dqmax)
    /\ LET op == record_directory(s.path, Len(s.files), s.dir_count,
                                  s.symlink_count)
       IN /\ dque' = Append(dque, op)
          /\ emitted' = Append(emitted, op)
          /\ passes' = passes \cup
                          {Summary([s EXCEPT !.out = Append(@, op)], "returned")}
          /\ wk' = Step(s, Idle)
    /\ UNCHANGED <<config, que, mpc, mi, wrpc, db, durable, faults, enqueued,
                   applied, hashed>>

\* self._db.record_directory(path, len(files), dir_count, symlink_count), the
\* last statement of _scan_dir when not done; loop() then gets the next item.
RecordDirectory(s) ==
    /\ s.pc = "files"
    /\ ~s.done
    /\ s.fi > Len(s.files)
    /\ IF Full(dque, dqmax)
       THEN /\ wk' = Step(s, Raise(s, "Full"))
            /\ UNCHANGED <<dque, emitted, passes>>
       ELSE LET op == record_directory(s.path, Len(s.files), s.dir_count,
                                       s.symlink_count)
            IN /\ dque' = Append(dque, op)
               /\ emitted' = Append(emitted, op)
               /\ passes' = passes \cup
                               {Summary([s EXCEPT !.out = Append(@, op)], "returned")}
               /\ wk' = Step(s, Idle)
    /\ UNCHANGED <<config, que, mpc, mi, wrpc, db, durable, faults, enqueued,
                   applied, hashed>>

\* _scan_dir returns with nothing emitted when done.
Return(s) ==
    /\ s.pc = "files"
    /\ s.done
    /\ passes' = passes \cup {Summary(s, "returned")}
    /\ wk' = Step(s, Idle)
    /\ UNCHANGED <<config, que, dque, mpc, mi, wrpc, db, durable, faults,
                   enqueued, emitted, applied, hashed>>

\* A faulty variant of the handler that rolls the failed pass back: it takes
\* the records of the pass that are still on the sink queue off it.
ExceptRollsBack(s) ==
    /\ s.pc = "except"
    /\ LET kept == SelectSeq(dque, LAMBDA op : \A i \in 1..Len(s.out) : s.out[i] # op)
       IN IF Full(kept, dqmax)
          THEN /\ wk' = Step(s, [Idle EXCEPT !.pc = "crashed"])
               /\ passes' = passes \cup {Summary(s, "crashed")}
               /\ dque' = kept
               /\ UNCHANGED emitted
          ELSE LET op == record_failure(s.path, s.e)
               IN /\ dque' = Append(kept, op)
                  /\ emitted' = Append(emitted, op)
                  /\ passes' = passes \cup
                                  {Summary([s EXCEPT !.out = Append(@, op)], "failed")}
                  /\ wk' = Step(s, Idle)
    /\ UNCHANGED <<config, que, mpc, mi, wrpc, db, durable, faults, enqueued,
                   applied, hashed>>

\* except Exception as e: self._db.record_failure(abs_path, e).  queue.Full
\* raised here is caught by nothing (the outer except names queue.Empty only):
\* the worker dies.
Except(s) ==
    /\ s.pc = "except"
    /\ IF Full(dque, dqmax)
       THEN /\ wk' = Step(s, [Idle EXCEPT !.pc = "crashed"])
            /\ passes' = passes \cup {Summary(s, "crashed")}
            /\ UNCHANGED <<dque, emitted>>
       ELSE LET op == record_failure(s.path, s.e)
            IN /\ dque' = Append(dque, op)
               /\ emitted' = Append(emitted, op)
               /\ passes' = passes \cup
                               {Summary([s EXCEPT !.out = Append(@, op)], "failed")}
               /\ wk' = Step(s, Idle)
    /\ UNCHANGED <<config, que, mpc, mi, wrpc, db, durable, faults, enqueued,
                   applied, hashed>>

(***************************************************************************)
(* DB.writer_loop                                                          *)
(***************************************************************************)

\* A faulty variant of the writer that commits what it applied when a store
\* error halts it.
WriterGetCommitsOnError ==
    LET op == Head(dque)
    IN /\ wrpc = "run"
       /\ dque # <<>>
       /\ dque' = Tail(dque)
       /\ \/ /\ op = STOP
             /\ durable' = db
             /\ wrpc' = "stopped"
             /\ UNCHANGED <<db, applied, faults>>
          \/ /\ op # STOP
             /\ db' = execute(db, op)
             /\ applied' = Append(applied, op)
             /\ UNCHANGED <<durable, wrpc, faults>>
          \/ /\ op # STOP
             /\ faults > 0
             /\ faults' = faults - 1
             /\ wrpc' = "crashed"
             /\ durable' = db
             /\ UNCHANGED <<db, applied>>
       /\ UNCHANGED <<config, que, mpc, mi, wk, enqueued, emitted, hashed, passes>>

\* A faulty variant of the writer that returns on "STOP" without commit.
WriterGetNoCommit ==
    LET op == Head(dque)
    IN /\ wrpc = "run"
       /\ dque # <<>>
       /\ dque' = Tail(dque)
       /\ \/ /\ op = STOP
             /\ wrpc' = "stopped"
             /\ UNCHANGED <<db, durable, applied, faults>>
          \/ /\ op # STOP
             /\ db' = execute(db, op)
             /\ applied' = Append(applied, op)
             /\ UNCHANGED <<durable, wrpc, faults>>
          \/ /\ op # STOP
             /\ faults > 0
             /\ faults' = faults - 1
             /\ wrpc' = "crashed"
             /\ UNCHANGED <<db, durable, applied>>
       /\ UNCHANGED <<config, que, mpc, mi, wk, enqueued, emitted, hashed, passes>>

\* op = self._queue.get(timeout=1) returns an item: "STOP" commits and
\* returns; anything else is executed, and an error of execute is not caught.
WriterGet ==
    LET op == Head(dque)
    IN /\ wrpc = "run"
       /\ dque # <<>>
       /\ dque' = Tail(dque)
       /\ \/ /\ op = STOP
             /\ durable' = db
             /\ wrpc' = "stopped"
             /\ UNCHANGED <<db, applied, faults>>
          \/ /\ op # STOP
             /\ db' = execute(db, op)
             /\ applied' = Append(applied, op)
             /\ UNCHANGED <<durable, wrpc, faults>>
          \/ /\ op # STOP
             /\ faults > 0
             /\ faults' = faults - 1
             /\ wrpc' = "crashed"
             /\ UNCHANGED <<db, durable, applied>>
       /\ UNCHANGED <<config, que, mpc, mi, wk, enqueued, emitted, hashed, passes>>

\* self._queue.get(timeout=1) raises queue.Empty: dbh.commit()
WriterTimeout ==
    /\ wrpc = "run"
    /\ dque = <<>>
    /\ durable' = db
    /\ UNCHANGED <<config, que, dque, mpc, mi, wk, wrpc, db, faults, enqueued,
                   emitted, applied, hashed, passes>>

Worker(s) ==
    \/ Dequeue(s)
    \/ Timeout(s)
    \/ ScanEntry(s)
    \/ ProcessFile(s)
    \/ RecordDirectory(s)
    \/ Return(s)
    \/ Except(s)

\* Scanner.loop, any started worker
loop == \E s \in BagToSet(wk) : Worker(s)

Main == Seed \/ StartWorker \/ StartWriter \/ JoinAll \/ stop

writer_loop == WriterGet \/ WriterTimeout

Next ==
    \/ Seed
    \/ StartWorker
    \/ StartWriter
    \/ JoinAll
    \/ stop
    \/ \E s \in BagToSet(wk) : Dequeue(s)
    \/ \E s \in BagToSet(wk) : Timeout(s)
    \/ \E s \in BagToSet(wk) : ScanEntry(s)
    \/ \E s \in BagToSet(wk) : ProcessFile(s)
    \/ \E s \in BagToSet(wk) : RecordDirectory(s)
    \/ \E s \in BagToSet(wk) : Return(s)
    \/ \E s \in BagToSet(wk) : Except(s)
    \/ WriterGet
    \/ WriterTimeout

Spec == Init /\ [][Next]_vars

\* main() is run a second time, with the same arguments on the same tree,
\* after the first run has ended with every worker gone and the writer stopped
\* on the sentinel: the store is what the first run committed, and
\* get_done_dirs() reads the resume index from it.
Rerun ==
    /\ run = 1
    /\ mpc = "done"
    /\ wrpc = "stopped"
    /\ run' = 2
    /\ store0' = durable
    /\ done_dirs' = get_done_dirs(durable)
    /\ db' = durable
    /\ que' = <<>>
    /\ dque' = <<>>
    /\ mpc' = "seed"
    /\ mi' = 1
    /\ wk' = EmptyBag
    /\ wrpc' = "unstarted"
    /\ enqueued' = <<>>
    /\ emitted' = <<>>
    /\ applied' = <<>>
    /\ hashed' = {}
    /\ passes' = {}
    /\ UNCHANGED <<kind, paths, nworkers, qmax, dqmax, durable, faults>>

NextTwoRuns == Next \/ Rerun

\* Two runs in a row, explored with one worker on every tree, root list and
\* resume index.
InitTwoRuns == Init /\ nworkers = 1

TwoRuns == InitTwoRuns /\ [][NextTwoRuns]_vars

\* Threads and processes are scheduled fairly: the coordinator, the pool and
\* the writer each take a step that stays possible.
FairSpec ==
    /\ Spec
    /\ WF_vars(Main)
    /\ WF_vars(loop)
    /\ WF_vars(writer_loop)

(***************************************************************************)
(* Vocabulary of the properties                                            *)
(***************************************************************************)

Range(q) == {q[i] : i \in 1..Len(q)}
IsPrefix(p, q) == Len(p) <= Len(q) /\ SubSeq(q, 1, Len(p)) = p

\* The roots the user gave (args.paths without the script).
UserRoots == {paths[i] : i \in 2..Len(paths)}

\* The store get_done_dirs() read at startup.
InitialStore ==
    [rel \in Relations |->
        IF rel = "directories" THEN [p \in done_dirs |-> PriorRow(kind, p)] ELSE NoRows]

\* Directories of the tree reachable from a user root through directory
\* entries, no component of which matches an ignore pattern.
ReachableDirs ==
    {d \in PhysDirs : /\ \E r \in UserRoots : IsPrefix(r, d)
                      /\ \A i \in 1..Len(d) : ~ignored(d[i])}

\* The entries of a physical directory that are of a kind, by what they are
\* (a symlink is a symlink whatever it points to).
EntriesOfKind(d, k) ==
    {i \in 1..Len(Listing(kind, d)) : Listing(kind, d)[i].kind = k}

AllStarted == BagCardinality(wk) = nworkers
AllExited == AllStarted /\ \A s \in BagToSet(wk) : Exited(s)

\* A completed run: every worker has exited and the writer has stopped on the
\* sentinel.
Completed == AllExited /\ wrpc = "stopped"

\* No error was injected and no pass ended in the handler, the script's aside.
CleanRun ==
    /\ faults = MaxFaults
    /\ \A p \in passes : p.outcome = "returned" \/ p.path = SCRIPT

\* C1: after a completed run every reachable, non-ignored directory D has
\* exactly one directories row, whose file_count, dir_count and symlink_count
\* are the numbers of regular-file, directory and symlink entries of D.  Stated
\* for the runs in which no error arose and for the directories scanned in this
\* run, where nothing but the counting of _scan_dir decides it.
C1_DirectoryRowTallies ==
    (Completed /\ CleanRun) =>
        \A d \in ReachableDirs \ done_dirs :
            /\ d \in DOMAIN durable.directories
            /\ durable.directories[d].file_count = Cardinality(EntriesOfKind(d, "file"))
            /\ durable.directories[d].dir_count = Cardinality(EntriesOfKind(d, "dir"))
            /\ durable.directories[d].symlink_count = Cardinality(EntriesOfKind(d, "symlink"))

\* C2: no error arising during a directory pass, the emission of the
\* FailureRecord included, makes a worker leave its loop: a worker leaves only
\* through the idle timeout of its own dequeue.
C2_WorkerLeavesOnlyByTimeout ==
    /\ \A s \in BagToSet(wk) : s.pc # "crashed"
    /\ \A p \in passes : p.outcome # "crashed"

\* C3: a full sink queue never raises an error in the worker that emits a
\* record, and never drops the record: the worker blocks until a slot is free.
C3_FullSinkNeverRaises ==
    \A s \in BagToSet(wk) : ~(s.pc = "except" /\ s.e = "Full")

\* The paths of the entries that are symlinks.
SymlinkPaths ==
    UNION {{join(d, Listing(kind, d)[i].name) : i \in EntriesOfKind(d, "symlink")} :
           d \in PhysDirs}

\* C4: an entry that is a symlink, whatever its target, is never put on the
\* work queue, never hashed and never given a FileRecord; a pass over its
\* directory (not in the resume index) that returns has emitted exactly one
\* SymlinkRecord for it and counted it in symlink_count only.
C4_SymlinkNeverFollowed ==
    \A l \in SymlinkPaths :
        /\ l \notin Range(enqueued)
        /\ l \notin hashed
        /\ \A i \in 1..Len(emitted) :
               emitted[i].abs_path = l => emitted[i].rel = "symlinks"
        /\ \A p \in passes :
               (p.path = dirname(l) /\ ~p.done /\ p.outcome = "returned") =>
                   /\ Cardinality({i \in 1..Len(p.out) :
                                     p.out[i] = record_symlink(l, Lookup(kind, dirname(l), Last(l)).target)}) = 1
                   /\ p.out[Len(p.out)].row.symlink_count =
                         Cardinality(EntriesOfKind(dirname(l), "symlink"))

\* The preconditions of C5: unbounded queues and no symlinked directory.
Unbounded == qmax = 0 /\ dqmax = 0
NoSymlinkedDir == kind # "to_dir"

\* Every worker left through its idle timeout, the coordinator has put the
\* sentinel, and the writer has met it, committed and returned.
Terminated ==
    /\ AllStarted
    /\ \A s \in BagToSet(wk) : s.pc = "exited"
    /\ que = <<>>
    /\ mpc = "done"
    /\ wrpc = "stopped"
    /\ dque = <<>>
    /\ durable = db

\* The same, but for a writer that a store error halted.
TerminatedOrWriterHalted ==
    /\ AllStarted
    /\ \A s \in BagToSet(wk) : s.pc = "exited"
    /\ que = <<>>
    /\ mpc = "done"
    /\ \/ wrpc = "stopped" /\ dque = <<>> /\ durable = db
       \/ wrpc = "crashed"

\* A unit blocked in a put on the full work queue.
MainBlocked == mpc = "seed" /\ mi <= Len(paths) /\ Full(que, qmax)
WorkerBlocked(s) ==
    /\ s.pc = "entries"
    /\ is_dir(kind, join(s.path, s.items[s.idx].name))
    /\ ~ignored(s.items[s.idx].name)
    /\ Full(que, qmax)

\* No unit can take a step that changes the state.  Under FairSpec a run
\* cannot stay for ever where a unit can step, so a run that takes finitely
\* many steps ends in such a state.
Quiescent == ~ENABLED <<Next>>_vars

RECURSIVE Sum(_, _)
Sum(f, S) == IF S = {} THEN 0
             ELSE LET x == CHOOSE y \in S : TRUE IN f[x] + Sum(f, S \ {x})

\* An upper bound on the steps (of workers and, for what they emit, of the
\* writer) that a path on the work queue still causes, its subtree included.
RECURSIVE TreeCost(_)
TreeCost(path) ==
    IF ~scandir_ok(kind, path) THEN 6
    ELSE LET items == scandir(kind, path)
             subs == {i \in 1..Len(items) :
                         /\ is_dir(kind, join(path, items[i].name))
                         /\ ~ignored(items[i].name)}
         IN 3 * (2 * Len(items) + 3)
            + Sum([i \in subs |-> TreeCost(join(path, items[i].name))], subs)

\* The same for a worker, by where it is in its pass; 1 is its final timeout.
WorkerCost(s) ==
    CASE s.pc = "get"     -> 1
      [] s.pc = "entries" ->
            LET subs == {i \in s.idx..Len(s.items) :
                            /\ is_dir(kind, join(s.path, s.items[i].name))
                            /\ ~ignored(s.items[i].name)}
            IN 3 * ((Len(s.items) - s.idx + 1) + Len(s.items) + 2) + 1
               + Sum([i \in subs |-> TreeCost(join(s.path, s.items[i].name))], subs)
      [] s.pc = "files"   -> 3 * ((Len(s.files) - s.fi + 1) + 2) + 1
      [] s.pc = "except"  -> 4
      [] OTHER            -> 0

MainCost ==
    CASE mpc = "seed"   ->
            Sum([i \in mi..Len(paths) |-> TreeCost(paths[i]) + 1], mi..Len(paths))
            + 2 * (nworkers - BagCardinality(wk)) + 5
      [] mpc = "writer" -> 5
      [] mpc = "join"   -> 4
      [] mpc = "stop"   -> 3
      [] OTHER          -> 0

\* A measure of the work left: every step that changes the state lowers it.
Measure ==
    MainCost
    + Sum([i \in 1..Len(que) |-> TreeCost(que[i])], 1..Len(que))
    + Sum([s \in BagToSet(wk) |-> CopiesIn(s, wk) * WorkerCost(s)], BagToSet(wk))
    + 2 * Len(dque)
    + (IF durable # db THEN 1 ELSE 0)

\* C5 as claimed: with unbounded queues, no symlinked directory and N >= 1
\* workers every fair run terminates: the work queue runs dry, every worker
\* times out and exits, the coordinator sends the sentinel, the writer commits
\* and terminates.  Hence a state in which no unit can step, where a fair run
\* ends, is a terminated one.
C5_EndsTerminated == (Unbounded /\ NoSymlinkedDir /\ Quiescent) => Terminated

\* C5 as amended: the same, unless a store-write error halts the writer, which
\* then never commits while the workers and the coordinator still finish.
\* Every step lowers Measure, so no run goes on for ever, and a state in which
\* no unit can step, where a fair run ends, is a terminated one or one whose
\* writer a store error halted after all the rest has finished.
C5_TerminatesUnlessWriterHalted ==
    /\ [][(Unbounded /\ NoSymlinkedDir) => Measure' < Measure]_vars
    /\ []((Unbounded /\ NoSymlinkedDir /\ Quiescent) => TerminatedOrWriterHalted)

C5_Witness ==
    /\ Unbounded /\ NoSymlinkedDir /\ Terminated
    /\ nworkers > 1 /\ Len(applied) > 2
    /\ Quiescent

\* C6: with a bounded work queue no reachable state has every live unit that
\* uses the work queue blocked on enqueue (some dequeue always unblocks it).
C6_NoEnqueueDeadlock ==
    ~ /\ MainBlocked \/ \E s \in BagToSet(wk) : WorkerBlocked(s)
      /\ mpc = "seed" => MainBlocked
      /\ \A s \in BagToSet(wk) : Exited(s) \/ WorkerBlocked(s)

\* The entries of the directory a path names that the pass must enqueue: its
\* directories whose name no ignore pattern matches.
Subdirectories(path) ==
    {join(path, scandir(kind, path)[i].name) :
        i \in {j \in EntriesOfKind(Resolve(kind, path).at, "dir") :
                  ~ignored(scandir(kind, path)[j].name)}}

RegularFiles(path) ==
    {join(path, scandir(kind, path)[i].name) :
        i \in EntriesOfKind(Resolve(kind, path).at, "file")}

OpsOf(out, rel) == {out[i] : i \in {j \in 1..Len(out) : out[j].rel = rel}}

\* C7: a pass over a directory D of the resume index emits no FileRecord,
\* SymlinkRecord or DirectoryRecord and hashes no entry of D, yet has enqueued
\* every non-ignored subdirectory of D when it returns; a pass over such a
\* subdirectory that is not itself in the resume index and returns has hashed
\* every regular file of it, emitted its FileRecord and the DirectoryRecord.
C7_ResumeSkipsRecordsNotDescent ==
    /\ \A s \in BagToSet(wk) :
          (s.pc \in {"entries", "files", "except"} /\ s.path \in done_dirs) =>
              s.out = <<>>
    /\ \A p \in passes :
          p.path \in done_dirs =>
              /\ \A i \in 1..Len(p.out) : p.out[i].rel = "failures"
              /\ p.outcome = "returned" => Subdirectories(p.path) \subseteq Range(p.sub)
    /\ \A f \in hashed : dirname(f) \notin done_dirs
    /\ \A p \in passes :
          (p.outcome = "returned" /\ dirname(p.path) \in done_dirs
              /\ p.path \notin done_dirs) =>
              /\ RegularFiles(p.path) \subseteq hashed
              /\ \A f \in RegularFiles(p.path) :
                    \E op \in OpsOf(p.out, "files") : op.abs_path = f
              /\ p.out[Len(p.out)].rel = "directories"
              /\ p.out[Len(p.out)].abs_path = p.path

C7_Witness ==
    \E p, q \in passes :
        /\ p.path = R /\ R \in done_dirs /\ p.outcome = "returned"
        /\ q.path = RS /\ q.outcome = "returned" /\ RS \in Range(p.sub)
        /\ <<"R", "S", "b">> \in hashed

\* C8: a directory whose name matches an ignore pattern is never put on the
\* work queue, met as an entry or given as a root, and no path equal to it or
\* below it is a key of any relation.
C8_IgnoredNeverEnqueued ==
    /\ \A p \in Range(enqueued) : ~ignored(Last(p))
    /\ \A rel \in Relations : \A p \in DOMAIN db[rel] :
          \A i \in 1..Len(p) : ~ignored(p[i])

\* The fingerprint of the content a path leads to.
Fingerprint(F) == <<"md5", Resolve(kind, F).content>>

HasFileRow(F) ==
    /\ F \in DOMAIN durable.files
    /\ durable.files[F].content_hash = Fingerprint(F)

\* C9 as claimed: after a completed run every regular file F that is a direct
\* entry of a non-ignored reachable directory not in the resume index has its
\* row of the files relation, keyed by F's absolute path, whose content_hash is
\* F's fingerprint.
C9_EveryRegularFileHasRow ==
    Completed =>
        \A d \in ReachableDirs \ done_dirs : \A F \in RegularFiles(d) : HasFileRow(F)

\* C9 as amended: the same for the directories a pass of which returned
\* without error; an error in a pass leaves the files it had not reached yet
\* without a row.
C9_RegularFilesOfReturnedPassHaveRow ==
    Completed =>
        \A d \in ReachableDirs \ done_dirs :
            (\E p \in passes : p.path = d /\ p.outcome = "returned") =>
                \A F \in RegularFiles(d) : HasFileRow(F)

C9_Witness ==
    /\ Completed
    /\ \E p \in passes : p.path = RS /\ p.outcome = "returned" /\ ~p.done
    /\ HasFileRow(<<"R", "S", "b">>)
    /\ \E p \in passes : p.path = R /\ p.outcome = "failed"

RECURSIVE ExecuteAll(_, _)
ExecuteAll(store, ops) ==
    IF ops = <<>> THEN store ELSE ExecuteAll(execute(store, Head(ops)), Tail(ops))

\* The records waiting on the sink queue, the sentinel left out.
Pending == SelectSeq(dque, LAMBDA op : op # STOP)

\* C10: the sentinel is put on the sink queue only after every worker has
\* exited, so that no record is ever behind it; the writer applies the records
\* the workers enqueued once each and in the order of the queue; and when the
\* writer has terminated on the sentinel every one of them is applied and
\* committed.
C10_SentinelLastAllApplied ==
    /\ (mpc = "done" \/ STOP \in Range(dque) \/ wrpc = "stopped") => AllExited
    /\ \A i \in 1..Len(dque) : dque[i] = STOP => i = Len(dque)
    /\ wrpc # "crashed" => applied \o Pending = emitted
    /\ IsPrefix(applied, emitted)
    /\ db = ExecuteAll(InitialStore, applied)
    /\ wrpc = "stopped" =>
          /\ applied = emitted
          /\ dque = <<>>
          /\ durable = ExecuteAll(InitialStore, emitted)

C10_Witness ==
    /\ wrpc = "stopped"
    /\ Len(applied) > 2
    /\ \E i, j \in 1..Len(applied) :
          i < j /\ applied[i].abs_path = applied[j].abs_path
                /\ applied[i].rel = applied[j].rel

\* The relations of the catalogue proper.
Catalogue == {"files", "directories", "symlinks"}

\* The directory a row belongs to: the row's path for a DirectoryRecord, the
\* directory of the entry for a FileRecord or SymlinkRecord.
DirOf(rel, p) == IF rel = "directories" THEN p ELSE dirname(p)

\* C11 as claimed: a second complete run on the unchanged tree, with the store
\* the first complete run left, leaves files, directories and symlinks as they
\* were: no row added, removed or changed.
C11_SecondRunChangesNothing ==
    (run = 2 /\ Completed) => \A rel \in Catalogue : durable[rel] = store0[rel]

\* C11 as amended: the second run removes and changes no row the first run
\* left, and adds rows only for directories the first run left without a
\* DirectoryRecord (their pass failed or never took place).
C11_SecondRunKeepsRowsAddsMissed ==
    run = 2 =>
        \A rel \in Catalogue :
            /\ \A p \in DOMAIN store0[rel] :
                  /\ p \in DOMAIN db[rel] /\ db[rel][p] = store0[rel][p]
                  /\ p \in DOMAIN durable[rel] /\ durable[rel][p] = store0[rel][p]
            /\ \A p \in DOMAIN db[rel] \ DOMAIN store0[rel] :
                  DirOf(rel, p) \notin DOMAIN store0.directories

C11_Witness ==
    /\ run = 2 /\ Completed
    /\ R \in DOMAIN store0.directories
    /\ RS \notin DOMAIN store0.directories
    /\ RS \in DOMAIN durable.directories
    /\ <<"R", "S", "b">> \in DOMAIN durable.files
    /\ \E p \in passes : p.path = R /\ p.done /\ p.outcome = "returned"

\* The operations applied so far on the row of a path in a relation.
WritesTo(rel, p) ==
    {i \in 1..Len(applied) : applied[i].rel = rel /\ applied[i].abs_path = p}

Greatest(S) == CHOOSE i \in S : \A j \in S : j <= i

\* C12: every relation holds at most one row per absolute path (a relation is
\* a function of the path), and the row of a path is exactly the record the
\* writer applied last for it, nothing of an earlier row surviving, also when
\* the path is scanned more than once in the run; a path no record was applied
\* for has the row the run found.
C12_LastAppliedWriteWins ==
    \A rel \in Relations :
        /\ DOMAIN db[rel] =
              DOMAIN store0[rel] \cup {applied[i].abs_path : i \in
                                          {j \in 1..Len(applied) : applied[j].rel = rel}}
        /\ \A p \in DOMAIN db[rel] :
              db[rel][p] = IF WritesTo(rel, p) = {} THEN store0[rel][p]
                           ELSE applied[Greatest(WritesTo(rel, p))].row

C12_Witness ==
    \E i, j \in 1..Len(applied) :
        /\ i < j
        /\ applied[i].rel = "directories" /\ applied[j].rel = "directories"
        /\ applied[i].abs_path = RS /\ applied[j].abs_path = RS
        /\ applied[i].row # applied[j].row
        /\ WritesTo("directories", RS) = {i, j}
        /\ db.directories[RS] = applied[j].row

\* C13: whenever every worker has exited the work queue is empty and no
\* directory is mid-scan: every path ever enqueued, root or discovered
\* subdirectory, was dequeued and its pass has finished (returned, or failed
\* and was recorded); the exit of the workers strands no enqueued work.
C13_ExitStrandsNoWork ==
    AllExited =>
        /\ que = <<>>
        /\ \A p \in Range(enqueued) :
              \E q \in passes : q.path = p /\ q.outcome \in {"returned", "failed"}

\* The outputs of the passes ended and of the passes under way.
PassOutputs == {q.out : q \in passes} \cup {s.out : s \in BagToSet(wk)}

Positions(out, rel) == {i \in 1..Len(out) : out[i].rel = rel}

\* C14: within a pass over a directory not in the resume index the worker puts
\* every SymlinkRecord and FileRecord on the sink queue before the
\* DirectoryRecord, which is the last record of the pass and counts them all;
\* so the writer never applies the DirectoryRecord of a pass before a
\* FileRecord or SymlinkRecord of that pass.
C14_DirectoryRecordLast ==
    \A out \in PassOutputs :
        \A d \in Positions(out, "directories") :
            /\ d = Len(out)
            /\ Cardinality(Positions(out, "files")) = out[d].row.file_count
            /\ Cardinality(Positions(out, "symlinks")) = out[d].row.symlink_count
            /\ \A k \in 1..Len(applied) :
                  applied[k] = out[d] =>
                      \A i \in 1..(d - 1) : \E j \in 1..(k - 1) : applied[j] = out[i]

C14_Witness ==
    \E q, r \in passes :
        /\ q.path = RS /\ q.outcome = "returned" /\ ~q.done
        /\ Positions(q.out, "files") # {}
        /\ q.out[Len(q.out)] \in Range(applied)
        /\ r.path = R /\ r.outcome = "returned" /\ ~r.done
        /\ Positions(r.out, "symlinks") # {}
        /\ r.out[Len(r.out)] \in Range(applied)

\* C15: the writer commits on every timeout of its get and on the sentinel:
\* a commit makes durable all that was applied, the timeout of a running
\* writer with something applied and not committed does commit, and the writer
\* stops only on taking the sentinel off the queue, never on a timeout, with
\* everything applied committed.
C15_CommitOnTimeoutAndSentinel ==
    /\ [][/\ durable' # durable => durable' = db'
          /\ (wrpc' = "stopped" /\ wrpc # "stopped") =>
                /\ wrpc = "run" /\ dque # <<>> /\ Head(dque) = STOP
                /\ durable' = db' /\ db' = db
          /\ (wrpc = "run" /\ wrpc' = "run" /\ dque = <<>> /\ durable' # durable) =>
                /\ durable' = db /\ dque' = <<>> /\ db' = db]_vars
    /\ []((wrpc = "run" /\ dque = <<>> /\ durable # db) =>
              ENABLED <<WriterTimeout>>_vars)
    /\ [](wrpc = "stopped" => durable = db)

\* A periodic commit has made applied records durable while workers still run.
C15_Witness ==
    /\ wrpc = "run"
    /\ ~AllExited
    /\ Len(applied) > 1
    /\ durable = db
    /\ durable # store0

\* Every path put on the work queue has had its pass, to the end.
EveryPathScanned ==
    /\ que = <<>>
    /\ \A p \in Range(enqueued) :
          \E q \in passes : q.path = p /\ q.outcome \in {"returned", "failed"}

\* C16: a store-write error while the writer applies an operation is not
\* caught.  An operation taken off the sink queue is applied or the writer
\* halts; it halts at once, without commit and without a trace in the other
\* units; nothing applied since the last commit becomes durable and nothing is
\* applied later; and the workers, not notified, go on with their passes:
\* where the sink queue takes all they emit they scan every path to the end.
C16_StoreErrorHaltsWriter ==
    /\ [][/\ (dque # <<>> /\ dque' = Tail(dque) /\ Head(dque) # STOP
                /\ applied' = applied) => wrpc' = "crashed"
          /\ (wrpc' = "crashed" /\ wrpc # "crashed") =>
                /\ durable' = durable /\ db' = db /\ applied' = applied
                /\ wk' = wk /\ que' = que /\ mpc' = mpc
          /\ wrpc = "crashed" =>
                /\ wrpc' = "crashed"
                /\ durable' = durable /\ db' = db /\ applied' = applied]_vars
    /\ []((wrpc = "crashed" /\ dqmax = 0 /\ AllExited) => EveryPathScanned)

\* The writer halted with an applied operation not committed, and the workers
\* went on to the end of the run, emitting records nobody applies.
C16_Witness ==
    /\ wrpc = "crashed"
    /\ dqmax = 0
    /\ db # durable
    /\ AllExited
    /\ \E q \in passes : q.outcome = "returned" /\ q.out # <<>>
                         /\ q.out[Len(q.out)] \in Range(dque)
    /\ Len(emitted) > Len(applied) + 1

\* The paths taken off the work queue so far, in order (the queue is FIFO).
Dequeued == SubSeq(enqueued, 1, Len(enqueued) - Len(que))

Count(q, x) == Cardinality({i \in 1..Len(q) : q[i] = x})

\* The FailureRecords emitted for path p.
FailureRecords(p) ==
    {i \in 1..Len(emitted) : emitted[i].rel = "failures" /\ emitted[i].abs_path = p}

\* The passes over path p, ended or under way.
PassesOver(p) ==
    Cardinality({q \in passes : q.path = p})
    + Sum([s \in BagToSet(wk) |->
              IF s.pc \in {"entries", "files", "except"} /\ s.path = p
              THEN CopiesIn(s, wk) ELSE 0], BagToSet(wk))

\* A failed pass is not retried: the step that ends a pass in the handler
\* puts nothing on the work queue, and a path has had no more passes and no
\* more FailureRecords than dequeues.
NoRetry ==
    /\ [][(\E q \in passes' \ passes : q.outcome # "returned") =>
             /\ que' = que
             /\ enqueued' = enqueued
             /\ Len(emitted') <= Len(emitted) + 1]_vars
    /\ [](\A p \in Range(enqueued) :
             /\ PassesOver(p) <= Count(Dequeued, p)
             /\ Cardinality(FailureRecords(p)) <= Count(Dequeued, p))

\* C17: a failed directory pass is never retried within the run (NoRetry),
\* and the failure handler emits exactly one FailureRecord for the directory:
\* every pass that ended in the handler has put one FailureRecord for its
\* path, its last record, on the sink queue.
C17_FailureRecordedOnceNoRetry ==
    /\ NoRetry
    /\ [](\A q \in passes :
             q.outcome # "returned" =>
                /\ Cardinality(Positions(q.out, "failures")) = 1
                /\ Last(q.out).rel = "failures"
                /\ Last(q.out).abs_path = q.path)

\* The workers inside a pass.
Scanning == {s \in BagToSet(wk) : s.pc \in {"entries", "files", "except"}}

\* C18: the resume index is what the store held when the run began and no
\* step of the run changes it; the done/not-done decision of every pass is
\* membership of its path in that snapshot, whatever the run has since
\* emitted, applied or committed for the path.
C18_ResumeIndexFrozen ==
    /\ [][run' = run => done_dirs' = done_dirs]_vars
    /\ [](done_dirs = DOMAIN store0.directories)
    /\ [](\A s \in Scanning : s.done = (s.path \in DOMAIN store0.directories))
    /\ [](\A q \in passes : q.done = (q.path \in DOMAIN store0.directories))

\* R/S, root and subdirectory of the root R, is dequeued a second time after
\* the DirectoryRecord of its first pass was committed, and is scanned as not
\* done.
C18_Witness ==
    /\ RS \notin done_dirs
    /\ RS \in DOMAIN durable.directories
    /\ \E q \in passes : q.path = RS /\ q.outcome = "returned" /\ ~q.done
    /\ \E s \in Scanning : s.path = RS /\ ~s.done /\ s.pc = "files"

\* The entries of directory d that _scan_dir appends to files.
CountedFiles(d) ==
    {join(d, scandir(kind, d)[i].name) : i \in
        {i \in 1..Len(scandir(kind, d)) :
            /\ ~is_dir(kind, join(d, scandir(kind, d)[i].name))
            /\ is_file(kind, join(d, scandir(kind, d)[i].name))}}

\* C19: no pass emits both a DirectoryRecord and a FailureRecord.  A pass
\* that emitted a DirectoryRecord did so as its last step and ended without
\* error, having emitted before it a FileRecord for every file counted in
\* file_count.  What a pass emitted and enqueued before it failed stays: the
\* records are applied or still on the sink queue (unless the writer has
\* halted), the subdirectories were put on the work queue, and no step takes
\* a record or a path back.
C19_DirectoryRecordOrFailure ==
    /\ [](\A out \in PassOutputs :
             Positions(out, "directories") = {} \/ Positions(out, "failures") = {})
    /\ [](\A q \in passes :
             q.outcome # "returned" =>
                /\ Positions(q.out, "directories") = {}
                /\ Range(q.sub) \subseteq Range(enqueued)
                /\ wrpc # "crashed" =>
                      Range(q.out) \subseteq Range(applied) \cup Range(dque))
    /\ [][/\ IsPrefix(emitted, emitted')
          /\ IsPrefix(enqueued, enqueued')
          /\ \A q \in passes' \ passes :
                /\ Range(q.out) \subseteq Range(emitted')
                /\ q.outcome # "returned" => IsPrefix(dque, dque') /\ que' = que
                /\ \A d \in Positions(q.out, "directories") :
                      /\ d = Len(q.out)
                      /\ q.out[d].abs_path = q.path
                      /\ {q.out[i].abs_path : i \in Positions(q.out, "files")}
                            = CountedFiles(q.path)
                      /\ Cardinality(CountedFiles(q.path))
                            = q.out[d].row.file_count]_vars

\* A pass over R failed after it had enqueued a subdirectory and emitted a
\* record; the record was applied all the same, and so was the FailureRecord;
\* and a pass over R/S returned with its FileRecords and DirectoryRecord.
C19_Witness ==
    /\ \E q \in passes :
          /\ q.outcome = "failed"
          /\ q.sub # <<>>
          /\ Len(q.out) >= 2
          /\ Range(q.out) \subseteq Range(applied)
    /\ \E r \in passes :
          /\ r.outcome = "returned"
          /\ Positions(r.out, "files") # {}
          /\ Positions(r.out, "directories") # {}

\* The entries of directory d for which item.is_dir() holds, by position.
DirEntries(d) ==
    {i \in 1..Len(scandir(kind, d)) : is_dir(kind, join(d, scandir(kind, d)[i].name))}

IgnoredDirEntries(d) == {i \in DirEntries(d) : ignored(scandir(kind, d)[i].name)}

\* C20: the dir_count of a DirectoryRecord counts every directory entry of
\* its directory, the ignore-matched ones included, while the pass enqueued
\* exactly the others, each once: dir_count is the number of subdirectories
\* the pass enqueued plus the number of ignore-matched directory entries.
\* Stated of the step that ends a pass, for the pass it adds to passes.
C20_DirCountIncludesIgnored ==
    [][\A q \in passes' \ passes :
        \A d \in Positions(q.out, "directories") :
            /\ q.out[d].row.dir_count = Cardinality(DirEntries(q.path))
            /\ q.out[d].row.dir_count
                  = Len(q.sub) + Cardinality(IgnoredDirEntries(q.path))
            /\ Len(q.sub) = Cardinality(Range(q.sub))
            /\ Range(q.sub)
                  = {join(q.path, scandir(kind, q.path)[i].name) :
                        i \in DirEntries(q.path) \ IgnoredDirEntries(q.path)}
            /\ \A i \in 1..Len(scandir(kind, q.path)) :
                  scandir(kind, q.path)[i].kind = "dir" => i \in DirEntries(q.path)]_vars

\* The DirectoryRecord of R, which holds R/S and the ignore-matched
\* R/X.backupdb, has been applied: it counts both, and R/S alone was enqueued.
C20_Witness ==
    \E q \in passes :
        /\ q.path = R
        /\ q.sub # <<>>
        /\ IgnoredDirEntries(R) # {}
        /\ Positions(q.out, "directories") # {}
        /\ Last(q.out).row.dir_count > Len(q.sub)
        /\ Last(q.out) \in Range(applied)
        /\ RX \notin Range(enqueued)

====
